---- MODULE Spec2Model ----
(***************************************************************************)
(* Model of the three job-ops scripts:                                     *)
(*   src/extractors/jobspy/scrape_jobs.py       (environment readers,     *)
(*                                               _parse_sites)            *)
(*   src/resume-generator/generate_summary.py   (generate_resume_summary) *)
(*   src/resume-generator/rxresume_automation.py (generate_resume_pdf,    *)
(*                                               import_resume)           *)
(* Strings are sequences of one-character strings.  os.getenv of an unset *)
(* variable is None.                                                       *)
(***************************************************************************)
EXTENDS Integers, Sequences, FiniteSets, TLC

VARIABLES script, pc, raw, out, sites, env, import_json, jsonFile,
          playwright, browser, launches, fs, uiState, elapsed, waitResult,
          seen, log, trace, error, returned

vars == <<script, pc, raw, out, sites, env, import_json, jsonFile,
          playwright, browser, launches, fs, uiState, elapsed, waitResult,
          seen, log, trace, error, returned>>

(***************************************************************************)
(* Bounds                                                                  *)
(***************************************************************************)
MaxEnvLen == 3

MaxSitesLen == 5

MaxPolls == 3

(***************************************************************************)
(* Strings                                                                 *)
(***************************************************************************)
None == <<"None">>

EnvAlphabet == {" ", "1", "-", "y", "Y"}

SitesAlphabet == {" ", ",", "a", "b"}

Whitespace == {" "}

StringsUpTo(alphabet, n) == UNION {[1..k -> alphabet] : k \in 0..n}

RECURSIVE LStrip(_)
LStrip(s) ==
    IF s # <<>> /\ Head(s) \in Whitespace THEN LStrip(Tail(s)) ELSE s

RECURSIVE RStrip(_)
RStrip(s) ==
    IF s # <<>> /\ s[Len(s)] \in Whitespace
    THEN RStrip(SubSeq(s, 1, Len(s) - 1))
    ELSE s

\* str.strip()
Strip(s) == RStrip(LStrip(s))

\* str.lower()
LowerChar(c) == IF c = "Y" THEN "y" ELSE c

Lower(s) == [i \in 1..Len(s) |-> LowerChar(s[i])]

\* str.split(",")
RECURSIVE Split(_)
Split(s) ==
    IF \A i \in 1..Len(s) : s[i] # ","
    THEN <<s>>
    ELSE LET i == CHOOSE j \in 1..Len(s) :
                      s[j] = "," /\ \A k \in 1..(j - 1) : s[k] # ","
         IN  <<SubSeq(s, 1, i - 1)>> \o Split(SubSeq(s, i + 1, Len(s)))

\* bool(value) of a str or None
Truthy(value) == value # None /\ value # <<>>

\* os.getenv(name, default)
Getenv(value, default) == IF value = None THEN default ELSE value

(***************************************************************************)
(* scrape_jobs.py: environment readers                                     *)
(***************************************************************************)
Digits == {"0", "1", "2", "3", "4", "5", "6", "7", "8", "9"}

DigitVal(c) ==
    CASE c = "0" -> 0 [] c = "1" -> 1 [] c = "2" -> 2 [] c = "3" -> 3
      [] c = "4" -> 4 [] c = "5" -> 5 [] c = "6" -> 6 [] c = "7" -> 7
      [] c = "8" -> 8 [] c = "9" -> 9

RECURSIVE Decimal(_)
Decimal(d) ==
    IF d = <<>> THEN 0
    ELSE 10 * Decimal(SubSeq(d, 1, Len(d) - 1)) + DigitVal(d[Len(d)])

\* int(value): surrounding whitespace and one sign are accepted; anything
\* else raises ValueError (ok = FALSE).
PyInt(value) ==
    LET t == Strip(value)
        signed == t # <<>> /\ t[1] \in {"-", "+"}
        d == IF signed THEN Tail(t) ELSE t
    IN  IF d # <<>> /\ \A i \in 1..Len(d) : d[i] \in Digits
        THEN [ok |-> TRUE,
              n |-> IF signed /\ t[1] = "-" THEN 0 - Decimal(d) ELSE Decimal(d)]
        ELSE [ok |-> FALSE, n |-> 0]

_env_str(value, default) ==
    IF Truthy(value) /\ Strip(value) # <<>> THEN value ELSE default

_env_int(value, default) ==
    IF value = None \/ Strip(value) = <<>>
    THEN default
    ELSE IF PyInt(value).ok THEN PyInt(value).n ELSE default

TrueWords ==
    {<<"1">>, <<"t", "r", "u", "e">>, <<"y", "e", "s">>, <<"y">>, <<"o", "n">>}

_env_bool(value, default) ==
    IF value = None \/ Strip(value) = <<>>
    THEN default
    ELSE Lower(Strip(value)) \in TrueWords

_parse_sites_nostrip(r) ==
    LET pieces == Split(r)
        kept == SelectSeq(pieces, LAMBDA s : s # <<>>)
    IN  [i \in 1..Len(kept) |-> Strip(kept[i])]

\* [s.strip() for s in raw.split(",") if s.strip()]
_parse_sites(r) ==
    LET pieces == Split(r)
        kept == SelectSeq(pieces, LAMBDA s : Strip(s) # <<>>)
    IN  [i \in 1..Len(kept) |-> Strip(kept[i])]

(***************************************************************************)
(* rxresume_automation.py: module-level configuration (lines 16-26)        *)
(***************************************************************************)
\* Path(_custom) if _custom else <default>
CustomOrDefault(value, default) == IF Truthy(value) THEN value ELSE default

(***************************************************************************)
(* State shared by the specifications.  A specification that does not run  *)
(* a script leaves that script's variables at these values.                *)
(***************************************************************************)
NoOut == [s |-> <<>>, n |-> 0, b |-> FALSE]

NoEnv == [RXRESUME_EMAIL |-> None, RXRESUME_PASSWORD |-> None,
          OPENROUTER_API_KEY |-> None, MODEL |-> None]

NoError == [type |-> "none", text |-> <<>>]

NoRun ==
    /\ env = NoEnv
    /\ import_json = FALSE
    /\ jsonFile = "valid"
    /\ playwright = "none"
    /\ browser = "none"
    /\ launches = 0
    /\ fs = {}
    /\ uiState = "closed"
    /\ elapsed = 0
    /\ waitResult = "none"
    /\ seen = <<>>
    /\ log = <<>>
    /\ trace = <<>>
    /\ error = NoError
    /\ returned = FALSE

runVars == <<env, import_json, jsonFile, playwright, browser, launches, fs,
             uiState, elapsed, waitResult, seen, log, trace, error, returned>>

(***************************************************************************)
(* Environment variables of the three scripts: how each is read and its    *)
(* default.                                                                *)
(*   str, int, bool : _env_str, _env_int, _env_bool (scrape_jobs.py main)  *)
(*   custom         : X if X else default (rxresume_automation.py 16-26)   *)
(*   getenv         : os.getenv(name, default) (generate_summary.py 113)   *)
(***************************************************************************)
StrVar(d) == [kind |-> "str", s |-> d, n |-> 0, b |-> FALSE]

IntVar(d) == [kind |-> "int", s |-> <<>>, n |-> d, b |-> FALSE]

BoolVar(d) == [kind |-> "bool", s |-> <<>>, n |-> 0, b |-> d]

EnvVars ==
    [JOBSPY_SITES |-> StrVar(<<"i", "n", "d", "e", "e", "d", ",", "l", "i", "n", "k", "e", "d", "i", "n">>),
     JOBSPY_SEARCH_TERM |-> StrVar(<<"w", "e", "b", " ", "d", "e", "v", "e", "l", "o", "p", "e", "r">>),
     JOBSPY_LOCATION |-> StrVar(<<"U", "K">>),
     JOBSPY_RESULTS_WANTED |-> IntVar(200),
     JOBSPY_HOURS_OLD |-> IntVar(72),
     JOBSPY_COUNTRY_INDEED |-> StrVar(<<"U", "K">>),
     JOBSPY_LINKEDIN_FETCH_DESCRIPTION |-> BoolVar(TRUE),
     JOBSPY_IS_REMOTE |-> BoolVar(FALSE),
     JOBSPY_OUTPUT_CSV |-> StrVar(<<"j", "o", "b", "s", ".", "c", "s", "v">>),
     RESUME_JSON_PATH |-> [StrVar(<<"b", "a", "s", "e", ".", "j", "s", "o", "n">>) EXCEPT !.kind = "custom"],
     OUTPUT_FILENAME |-> [StrVar(<<"r", "e", "s", "u", "m", "e", ".", "p", "d", "f">>) EXCEPT !.kind = "custom"],
     OUTPUT_DIR |-> [StrVar(<<"r", "e", "s", "u", "m", "e", "s">>) EXCEPT !.kind = "custom"],
     MODEL |-> [StrVar(<<"o", "p", "e", "n", "a", "i", "/", "g", "p", "t", "-", "4", "o", "-", "m", "i", "n", "i">>) EXCEPT !.kind = "getenv"]]

VarsOfKind(k) == {v \in DOMAIN EnvVars : EnvVars[v].kind = k}

DefaultOut(v) == [s |-> EnvVars[v].s, n |-> EnvVars[v].n, b |-> EnvVars[v].b]

(***************************************************************************)
(* SpecEnv: one environment variable holds any value (or is unset) and one *)
(* of the scripts reads it.                                                *)
(***************************************************************************)
InitEnv ==
    /\ script = "env"
    /\ pc = "unread"
    /\ raw \in {None} \cup StringsUpTo(EnvAlphabet, MaxEnvLen)
    /\ out = NoOut
    /\ sites = <<>>
    /\ NoRun

\* scrape_jobs.py main: search_term, location, ... = _env_str(...)
ReadEnvStr ==
    /\ script = "env" /\ pc = "unread"
    /\ \E v \in VarsOfKind("str") :
          /\ out' = [NoOut EXCEPT !.s = _env_str(raw, EnvVars[v].s)]
          /\ pc' = v
    /\ UNCHANGED <<script, raw, sites, runVars>>

\* scrape_jobs.py main: results_wanted, hours_old = _env_int(...)
ReadEnvInt ==
    /\ script = "env" /\ pc = "unread"
    /\ \E v \in VarsOfKind("int") :
          /\ out' = [NoOut EXCEPT !.n = _env_int(raw, EnvVars[v].n)]
          /\ pc' = v
    /\ UNCHANGED <<script, raw, sites, runVars>>

\* scrape_jobs.py main: linkedin_fetch_description, is_remote = _env_bool(...)
ReadEnvBool ==
    /\ script = "env" /\ pc = "unread"
    /\ \E v \in VarsOfKind("bool") :
          /\ out' = [NoOut EXCEPT !.b = _env_bool(raw, EnvVars[v].b)]
          /\ pc' = v
    /\ UNCHANGED <<script, raw, sites, runVars>>

\* rxresume_automation.py: RESUME_JSON_PATH, OUTPUT_FILENAME, OUTPUT_DIR
ReadEnvCustom ==
    /\ script = "env" /\ pc = "unread"
    /\ \E v \in VarsOfKind("custom") :
          /\ out' = [NoOut EXCEPT !.s = CustomOrDefault(raw, EnvVars[v].s)]
          /\ pc' = v
    /\ UNCHANGED <<script, raw, sites, runVars>>

\* generate_summary.py: model = os.getenv("MODEL", "openai/gpt-4o-mini")
ReadEnvGetenv ==
    /\ script = "env" /\ pc = "unread"
    /\ \E v \in VarsOfKind("getenv") :
          /\ out' = [NoOut EXCEPT !.s = Getenv(raw, EnvVars[v].s)]
          /\ pc' = v
    /\ UNCHANGED <<script, raw, sites, runVars>>

NextEnv ==
    \/ ReadEnvStr
    \/ ReadEnvInt
    \/ ReadEnvBool
    \/ ReadEnvCustom
    \/ ReadEnvGetenv

SpecEnv == InitEnv /\ [][NextEnv]_vars

(***************************************************************************)
(* SpecSites: _parse_sites applied to any comma-separated string, and as   *)
(* main applies it to JOBSPY_SITES.                                        *)
(***************************************************************************)
InitSites ==
    /\ script = "sites"
    /\ pc = "input"
    /\ raw \in {None} \cup StringsUpTo(SitesAlphabet, MaxSitesLen)
    /\ out = NoOut
    /\ sites = <<>>
    /\ NoRun

ParseSites ==
    /\ script = "sites" /\ pc = "input"
    /\ raw # None
    /\ sites' = _parse_sites(raw)
    /\ pc' = "parsed"
    /\ UNCHANGED <<script, raw, out, runVars>>

\* sites = _parse_sites(_env_str("JOBSPY_SITES", "indeed,linkedin"))
MainSites ==
    /\ script = "sites" /\ pc = "input"
    /\ sites' = _parse_sites(_env_str(raw, EnvVars.JOBSPY_SITES.s))
    /\ pc' = "main_parsed"
    /\ UNCHANGED <<script, raw, out, runVars>>

NextSites ==
    \/ ParseSites
    \/ MainSites

SpecSites == InitSites /\ [][NextSites]_vars

(***************************************************************************)
(* Spec: one run of generate_resume_pdf (rxresume_automation.py) or of     *)
(* generate_resume_summary (generate_summary.py).  The outcome of every    *)
(* call into Playwright, the filesystem or the network is chosen when the  *)
(* call is made.                                                           *)
(***************************************************************************)
Has(seq, x) == \E i \in 1..Len(seq) : seq[i] = x

Count(seq, x) == Cardinality({i \in 1..Len(seq) : seq[i] = x})

Err(type) == [type |-> type, text |-> <<>>]

\* module-level constants of rxresume_automation.py
RXRESUME_EMAIL == Getenv(env.RXRESUME_EMAIL, <<>>)

RXRESUME_PASSWORD == Getenv(env.RXRESUME_PASSWORD, <<>>)

\* errors_dir = OUTPUT_DIR.parent / "errors" and the two files written there
errors_dir == "errors"

screenshot_path == "errors/debug_stem.png"

failed_json_path == "errors/stem.json"

\* output_path = OUTPUT_DIR / actual_filename and its parent
output_dir == "resumes"

output_path == "resumes/resume.pdf"

error_selectors ==
    <<"text=/error|invalid|failed/i", "[class*=\"error\"]",
      "[class*=\"destructive\"]", ".text-red-500", ".text-destructive",
      "[role=\"alert\"]">>

\* inner_text() of the element a selector matches: empty, blank, or a
\* message naming the selector, with or without surrounding whitespace
SelectorMark == <<"A", "B", "C", "D", "E", "F">>

ElementTexts(i) ==
    {<<>>, <<" ">>, <<SelectorMark[i]>>, <<" ", SelectorMark[i], " ">>}

\* page.query_selector(selector): None or an element (its inner text)
QueryOutcomes(i) == {None} \cup ElementTexts(i)

dialog_selector == "[role=\"dialog\"]"

\* page.query_selector('[role="dialog"]'): None or the dialog (its text)
DialogOutcomes == {None, <<"d">>}

InitRun ==
    /\ script \in {"automation", "summary"}
    /\ pc = "start"
    /\ raw = None
    /\ out = NoOut
    /\ sites = <<>>
    /\ IF script = "automation"
       THEN /\ env \in {[NoEnv EXCEPT !.RXRESUME_EMAIL = e,
                                      !.RXRESUME_PASSWORD = p] :
                           e \in {None, <<>>, <<"u">>},
                           p \in {None, <<>>, <<"p">>}}
            /\ import_json \in BOOLEAN
            /\ fs \in {{}, {errors_dir, failed_json_path}}
       ELSE /\ env \in {[NoEnv EXCEPT !.OPENROUTER_API_KEY = k, !.MODEL = m] :
                           k \in {None, <<>>, <<"k">>},
                           m \in {None, <<>>, <<"m">>}}
            /\ import_json = FALSE
            /\ fs = {}
    /\ jsonFile \in {"valid", "invalid", "missing"}
    /\ playwright = "none"
    /\ browser = "none"
    /\ launches = 0
    /\ uiState = "closed"
    /\ elapsed = 0
    /\ waitResult = "none"
    /\ seen = <<>>
    /\ log = <<>>
    /\ trace = <<>>
    /\ error = NoError
    /\ returned = FALSE

pureVars == <<script, raw, out, sites, env, import_json, jsonFile>>

At(p) == script = "automation" /\ pc = p

\* with sync_playwright() as playwright:   (__enter__)
EnterPlaywright ==
    /\ At("start")
    /\ playwright' = "started"
    /\ pc' = "launch"
    /\ UNCHANGED <<pureVars, browser, launches, fs, uiState, elapsed,
                   waitResult, seen, log, trace, error, returned>>

\* browser = playwright.firefox.launch(headless=True)
Launch ==
    /\ At("launch")
    /\ \E ok \in BOOLEAN :
          IF ok
          THEN /\ browser' = "open"
               /\ launches' = launches + 1
               /\ trace' = Append(trace, "launch")
               /\ pc' = "new_context"
               /\ error' = error
          ELSE /\ error' = Err("launch")
               /\ pc' = "exit_with"
               /\ UNCHANGED <<browser, launches, trace>>
    /\ UNCHANGED <<pureVars, playwright, fs, uiState, elapsed, waitResult,
                   seen, log, returned>>

\* context = browser.new_context()   (outside the try)
NewContext ==
    /\ At("new_context")
    /\ \E ok \in BOOLEAN :
          IF ok
          THEN pc' = "new_page" /\ error' = error
          ELSE pc' = "exit_with" /\ error' = Err("new_context")
    /\ UNCHANGED <<pureVars, playwright, browser, launches, fs, uiState,
                   elapsed, waitResult, seen, log, trace, returned>>

\* page = context.new_page()   (outside the try)
NewPage ==
    /\ At("new_page")
    /\ \E ok \in BOOLEAN :
          IF ok
          THEN pc' = "login" /\ error' = error
          ELSE pc' = "exit_with" /\ error' = Err("new_page")
    /\ UNCHANGED <<pureVars, playwright, browser, launches, fs, uiState,
                   elapsed, waitResult, seen, log, trace, returned>>

\* login(page): the site reaches the dashboard only for credentials it
\* accepts, never for an empty e-mail or password; otherwise wait_for_url
\* times out.
login ==
    /\ At("login")
    /\ trace' = Append(trace, "login")
    /\ \E accepted \in BOOLEAN :
          /\ accepted => (RXRESUME_EMAIL # <<>> /\ RXRESUME_PASSWORD # <<>>)
          /\ IF accepted
             THEN /\ pc' = IF import_json THEN "import" ELSE "navigate"
                  /\ error' = error
             ELSE /\ pc' = "finally"
                  /\ error' = Err("login_timeout")
    /\ UNCHANGED <<pureVars, playwright, browser, launches, fs, uiState,
                   elapsed, waitResult, seen, log, returned>>

(***************************************************************************)
(* import_resume(page, json_path)                                          *)
(***************************************************************************)
ImportBegin_mkdir ==
    /\ At("import")
    /\ log' = Append(log, IF jsonFile = "valid" THEN "json_keys"
                                                ELSE "json_unreadable")
    /\ trace' = Append(trace, "open_import")
    /\ uiState' = "dialog"
    /\ fs' = fs \cup {errors_dir}
    /\ pc' = "upload"
    /\ UNCHANGED <<pureVars, playwright, browser, launches, elapsed,
                   waitResult, seen, error, returned>>

\* lines 42-52: log the JSON keys (a read; failures are swallowed), then
\* page.click('h4:has-text("Import")')
ImportBegin ==
    /\ At("import")
    /\ log' = Append(log, IF jsonFile = "valid" THEN "json_keys"
                                                ELSE "json_unreadable")
    /\ trace' = Append(trace, "open_import")
    /\ uiState' = "dialog"
    /\ pc' = "upload"
    /\ UNCHANGED <<pureVars, playwright, browser, launches, fs, elapsed,
                   waitResult, seen, error, returned>>

\* page.set_input_files('input[type="file"]', str(json_path)): raises when
\* the file does not exist
Upload ==
    /\ At("upload")
    /\ IF jsonFile = "missing"
       THEN /\ error' = Err("upload_file_not_found")
            /\ pc' = "finally"
            /\ trace' = trace
       ELSE /\ trace' = Append(trace, "upload")
            /\ pc' = "validate"
            /\ error' = error
    /\ UNCHANGED <<pureVars, playwright, browser, launches, fs, uiState,
                   elapsed, waitResult, seen, log, returned>>

\* page.click('button:has-text("Validate")'); the site starts validating and
\* may answer at once
ClickValidate ==
    /\ At("validate")
    /\ trace' = Append(trace, "validate")
    /\ uiState' \in {"validating", "enabled", "error"}
    /\ elapsed' = 0
    /\ pc' = "wait"
    /\ UNCHANGED <<pureVars, playwright, browser, launches, fs, waitResult,
                   seen, log, error, returned>>

\* page.wait_for_selector('button:has-text("Import"):not([disabled])',
\*                        timeout=10000): the selector matches
WaitSuccess ==
    /\ At("wait")
    /\ uiState = "enabled"
    /\ waitResult' = "ok"
    /\ pc' = "confirm"
    /\ UNCHANGED <<pureVars, playwright, browser, launches, fs, uiState,
                   elapsed, seen, log, trace, error, returned>>

\* wait_for_selector: no match yet and time remains; the wait goes on while
\* the site moves on (an error message, once shown, stays)
WaitPoll ==
    /\ At("wait")
    /\ uiState # "enabled"
    /\ elapsed < MaxPolls
    /\ elapsed' = elapsed + 1
    /\ uiState' \in IF uiState = "error" THEN {"error"}
                    ELSE {"validating", "enabled", "error"}
    /\ UNCHANGED <<pureVars, pc, playwright, browser, launches, fs,
                   waitResult, seen, log, trace, error, returned>>

WaitTimeout_retry ==
    /\ At("wait")
    /\ uiState # "enabled"
    /\ elapsed = MaxPolls
    /\ IF Count(trace, "validate") < 2
       THEN waitResult' = waitResult /\ pc' = "validate"
       ELSE waitResult' = "failed" /\ pc' = "mkdir"
    /\ UNCHANGED <<pureVars, playwright, browser, launches, fs, uiState,
                   elapsed, seen, log, trace, error, returned>>

\* wait_for_selector: the timeout expires without a match; the exception is
\* caught at line 60
WaitTimeout ==
    /\ At("wait")
    /\ uiState # "enabled"
    /\ elapsed = MaxPolls
    /\ waitResult' = "failed"
    /\ pc' = "mkdir"
    /\ UNCHANGED <<pureVars, playwright, browser, launches, fs, uiState,
                   elapsed, seen, log, trace, error, returned>>

\* errors_dir.mkdir(parents=True, exist_ok=True): missing parents are
\* created and an existing directory is accepted
MakeErrorsDir ==
    /\ At("mkdir")
    /\ fs' = fs \cup {errors_dir}
    /\ pc' = "screenshot"
    /\ UNCHANGED <<pureVars, playwright, browser, launches, uiState, elapsed,
                   waitResult, seen, log, trace, error, returned>>

TakeScreenshot_unguarded ==
    /\ At("screenshot")
    /\ \E ok \in BOOLEAN :
          IF ok
          THEN /\ fs' = fs \cup {screenshot_path}
               /\ log' = Append(log, "screenshot_saved")
               /\ pc' = "copy"
               /\ error' = error
          ELSE /\ error' = Err("screenshot")
               /\ pc' = "finally"
               /\ UNCHANGED <<fs, log>>
    /\ UNCHANGED <<pureVars, playwright, browser, launches, uiState, elapsed,
                   waitResult, seen, trace, returned>>

\* lines 66-71: page.screenshot(path=...), failure swallowed
TakeScreenshot ==
    /\ At("screenshot")
    /\ \E ok \in BOOLEAN :
          IF ok
          THEN /\ fs' = fs \cup {screenshot_path}
               /\ log' = Append(log, "screenshot_saved")
          ELSE /\ fs' = fs
               /\ log' = Append(log, "screenshot_failed")
    /\ pc' = "copy"
    /\ UNCHANGED <<pureVars, playwright, browser, launches, uiState, elapsed,
                   waitResult, seen, trace, error, returned>>

\* lines 74-80: shutil.copy(json_path, failed_json_path), failure swallowed
CopyFailedJson ==
    /\ At("copy")
    /\ \E ok \in BOOLEAN :
          IF ok
          THEN /\ fs' = fs \cup {failed_json_path}
               /\ log' = Append(log, "json_saved")
          ELSE /\ fs' = fs
               /\ log' = Append(log, "json_save_failed")
    /\ pc' = "scan"
    /\ UNCHANGED <<pureVars, playwright, browser, launches, uiState, elapsed,
                   waitResult, seen, trace, error, returned>>

ScanSelector_nostrip ==
    /\ At("scan")
    /\ Len(seen) < Len(error_selectors)
    /\ \E el \in QueryOutcomes(Len(seen) + 1) :
          /\ seen' = Append(seen, el)
          /\ IF el # None /\ el # <<>>
             THEN /\ log' = Append(log, "validation_error")
                  /\ error' = [type |-> "validation_failed",
                               text |-> Strip(el)]
                  /\ pc' = "finally"
             ELSE UNCHANGED <<log, error, pc>>
    /\ trace' = Append(trace, error_selectors[Len(seen) + 1])
    /\ UNCHANGED <<pureVars, playwright, browser, launches, fs, uiState,
                   elapsed, waitResult, returned>>

\* lines 91-97, one iteration: query the next selector; an element whose
\* stripped text is non-empty ends the scan with RuntimeError
ScanSelector ==
    /\ At("scan")
    /\ Len(seen) < Len(error_selectors)
    /\ \E el \in QueryOutcomes(Len(seen) + 1) :
          /\ seen' = Append(seen, el)
          /\ IF el # None /\ Strip(el) # <<>>
             THEN /\ log' = Append(log, "validation_error")
                  /\ error' = [type |-> "validation_failed",
                               text |-> Strip(el)]
                  /\ pc' = "finally"
             ELSE UNCHANGED <<log, error, pc>>
    /\ trace' = Append(trace, error_selectors[Len(seen) + 1])
    /\ UNCHANGED <<pureVars, playwright, browser, launches, fs, uiState,
                   elapsed, waitResult, returned>>

LogDialogAndRaise_fallthrough ==
    /\ At("scan")
    /\ Len(seen) = Len(error_selectors)
    /\ \E dialog \in DialogOutcomes :
          /\ seen' = Append(seen, dialog)
          /\ log' = IF dialog # None THEN Append(log, "dialog_content") ELSE log
    /\ trace' = Append(trace, dialog_selector)
    /\ pc' = "confirm"
    /\ UNCHANGED <<pureVars, playwright, browser, launches, fs, uiState,
                   elapsed, waitResult, error, returned>>

\* lines 99-105: every selector was tried; log the dialog text when there is
\* a dialog, then raise RuntimeError("Import button not found ...")
LogDialogAndRaise ==
    /\ At("scan")
    /\ Len(seen) = Len(error_selectors)
    /\ \E dialog \in DialogOutcomes :
          /\ seen' = Append(seen, dialog)
          /\ log' = IF dialog # None THEN Append(log, "dialog_content") ELSE log
    /\ trace' = Append(trace, dialog_selector)
    /\ error' = Err("import_timeout")
    /\ pc' = "finally"
    /\ UNCHANGED <<pureVars, playwright, browser, launches, fs, uiState,
                   elapsed, waitResult, returned>>

\* line 107: page.click('button:has-text("Import")'); import_resume returns
ConfirmImport ==
    /\ At("confirm")
    /\ trace' = Append(trace, "confirm")
    /\ uiState' = "imported"
    /\ pc' = "navigate"
    /\ UNCHANGED <<pureVars, playwright, browser, launches, fs, elapsed,
                   waitResult, seen, log, error, returned>>

(***************************************************************************)
(* generate_resume_pdf, after import_resume                                *)
(***************************************************************************)
\* navigate_to_top_resume(page): wait_for_url may time out
navigate_to_top_resume ==
    /\ At("navigate")
    /\ trace' = Append(trace, "navigate")
    /\ \E ok \in BOOLEAN :
          IF ok
          THEN pc' = "export" /\ error' = error
          ELSE pc' = "finally" /\ error' = Err("navigate_timeout")
    /\ UNCHANGED <<pureVars, playwright, browser, launches, fs, uiState,
                   elapsed, waitResult, seen, log, returned>>

\* export_pdf(page, output_path): the download may time out; otherwise the
\* output directory is created and the PDF saved
export_pdf ==
    /\ At("export")
    /\ trace' = Append(trace, "export")
    /\ \E ok \in BOOLEAN :
          IF ok
          THEN /\ fs' = fs \cup {output_dir, output_path}
               /\ error' = error
          ELSE /\ fs' = fs
               /\ error' = Err("download_timeout")
    /\ pc' = "finally"
    /\ UNCHANGED <<pureVars, playwright, browser, launches, uiState,
                   elapsed, waitResult, seen, log, returned>>

\* finally: browser.close()
Finally ==
    /\ At("finally")
    /\ browser' = "closed"
    /\ trace' = Append(trace, "close")
    /\ pc' = "exit_with"
    /\ UNCHANGED <<pureVars, playwright, launches, fs, uiState, elapsed,
                   waitResult, seen, log, error, returned>>

ExitPlaywright_leak ==
    /\ At("exit_with")
    /\ playwright' = "stopped"
    /\ pc' = IF error = NoError THEN "return" ELSE "raised"
    /\ UNCHANGED <<pureVars, browser, launches, fs, uiState, elapsed,
                   waitResult, seen, log, trace, error, returned>>

\* end of the with block (__exit__): Playwright is stopped, which shuts down
\* its driver and every browser the driver still has open; a pending
\* exception goes on to the caller
ExitPlaywright ==
    /\ At("exit_with")
    /\ playwright' = "stopped"
    /\ browser' = IF browser = "open" THEN "terminated" ELSE browser
    /\ pc' = IF error = NoError THEN "return" ELSE "raised"
    /\ UNCHANGED <<pureVars, launches, fs, uiState, elapsed, waitResult,
                   seen, log, trace, error, returned>>

\* lines 177-178: print and return output_path
ReturnPath ==
    /\ At("return")
    /\ log' = Append(log, "pdf_saved")
    /\ returned' = TRUE
    /\ pc' = "returned"
    /\ UNCHANGED <<pureVars, playwright, browser, launches, fs, uiState,
                   elapsed, waitResult, seen, trace, error>>

(***************************************************************************)
(* generate_resume_summary (generate_summary.py)                           *)
(***************************************************************************)
InSummary(p) == script = "summary" /\ pc = p

autoVars == <<playwright, browser, launches, fs, uiState, elapsed,
              waitResult, seen>>

\* lines 110-116: load_dotenv, read the key and the model, refuse to go on
\* without a key
CheckApiKey ==
    /\ InSummary("start")
    /\ trace' = Append(trace, "load_dotenv")
    /\ IF ~Truthy(env.OPENROUTER_API_KEY)
       THEN /\ error' = Err("missing_credential")
            /\ pc' = "raised"
            /\ out' = out
       ELSE /\ error' = error
            /\ pc' = "load_profile"
            /\ out' = [NoOut EXCEPT !.s = Getenv(env.MODEL, EnvVars.MODEL.s)]
    /\ UNCHANGED <<script, raw, sites, env, import_json, jsonFile, autoVars,
                   log, returned>>

\* profile = load_profile(profile_path)
load_profile ==
    /\ InSummary("load_profile")
    /\ trace' = Append(trace, "read_profile")
    /\ IF jsonFile = "valid"
       THEN pc' = "load_jd" /\ error' = error
       ELSE pc' = "raised" /\ error' = Err("profile_unreadable")
    /\ UNCHANGED <<pureVars, autoVars, log, returned>>

\* lines 120-123: the job description is the argument, or the clipboard, or
\* (from_clipboard False, no path) load_job_description raises ValueError
load_job_description ==
    /\ InSummary("load_jd")
    /\ \E source \in {"argument", "clipboard", "nothing"} :
          IF source = "nothing"
          THEN /\ pc' = "raised"
               /\ error' = Err("no_job_description")
               /\ trace' = trace
          ELSE /\ pc' = "call"
               /\ error' = error
               /\ trace' = IF source = "clipboard"
                           THEN Append(trace, "clipboard_paste") ELSE trace
    /\ UNCHANGED <<pureVars, autoVars, log, returned>>

\* lines 125-126: build the prompt and post it; a status other than 200
\* raises RuntimeError carrying status and body
_call_openrouter ==
    /\ InSummary("call")
    /\ trace' = Append(trace, "http_post")
    /\ \E status_code \in {200, 500} :
          IF status_code = 200
          THEN pc' = "copy" /\ error' = error
          ELSE pc' = "raised" /\ error' = Err("openrouter_status")
    /\ UNCHANGED <<pureVars, autoVars, log, returned>>

\* lines 128-131: copy to the clipboard when asked, return the summary
ReturnSummary ==
    /\ InSummary("copy")
    /\ \E copy_to_clipboard \in BOOLEAN :
          trace' = IF copy_to_clipboard THEN Append(trace, "clipboard_copy")
                   ELSE trace
    /\ returned' = TRUE
    /\ pc' = "returned"
    /\ UNCHANGED <<pureVars, autoVars, log, error>>

Next ==
    \/ EnterPlaywright
    \/ Launch
    \/ NewContext
    \/ NewPage
    \/ login
    \/ ImportBegin
    \/ Upload
    \/ ClickValidate
    \/ WaitSuccess
    \/ WaitPoll
    \/ WaitTimeout
    \/ MakeErrorsDir
    \/ TakeScreenshot
    \/ CopyFailedJson
    \/ ScanSelector
    \/ LogDialogAndRaise
    \/ ConfirmImport
    \/ navigate_to_top_resume
    \/ export_pdf
    \/ Finally
    \/ ExitPlaywright
    \/ ReturnPath
    \/ CheckApiKey
    \/ load_profile
    \/ load_job_description
    \/ _call_openrouter
    \/ ReturnSummary

Spec == InitRun /\ [][Next]_vars

(***************************************************************************)
(* Properties                                                              *)
(***************************************************************************)
Terminal == pc \in {"returned", "raised"}

ImportPositions ==
    {"import", "upload", "validate", "wait", "mkdir", "screenshot", "copy",
     "scan", "confirm"}

AfterImport == {"navigate", "export", "finally", "exit_with", "return",
                "returned", "raised"}

ImportErrors == {"upload_file_not_found", "validation_failed", "import_timeout"}

HasText(el) == el # None /\ Strip(el) # <<>>

\* C1: the confirm click happens at most once and only after the wait has
\* succeeded; once the wait has succeeded and control is past the click, it
\* happened exactly once (after the validate click) and import_resume
\* returned without an error of its own; after a failed wait it never happens.
ConfirmOnceAfterSuccess ==
    script = "automation" =>
        /\ Count(trace, "confirm") <= 1
        /\ Has(trace, "confirm") =>
              /\ waitResult = "ok"
              /\ \E i, j \in 1..Len(trace) :
                    i < j /\ trace[i] = "validate" /\ trace[j] = "confirm"
        /\ waitResult = "failed" => ~Has(trace, "confirm") /\ pc # "confirm"
        /\ (waitResult = "ok" /\ pc # "confirm") =>
              /\ Count(trace, "confirm") = 1
              /\ pc \in AfterImport
              /\ error.type \notin ImportErrors

ConfirmFired ==
    /\ script = "automation"
    /\ waitResult = "ok"
    /\ pc = "navigate"
    /\ trace[Len(trace)] = "confirm"

WaitEndsOnEitherCondition ==
    [][At("wait") =>
          /\ uiState = "enabled" => (pc' = "confirm" /\ waitResult' = "ok")
          /\ uiState = "error" => (pc' # "wait" /\ waitResult' = "failed")
          /\ elapsed' <= MaxPolls]_vars

\* C4: a step of import_resume changes the set of files and directories only
\* after the validation wait has failed.
WritesOnlyOnFailure ==
    [][(script = "automation" /\ pc \in ImportPositions /\ fs' # fs)
          => waitResult = "failed"]_vars

ImportedWithoutWrites ==
    /\ script = "automation"
    /\ waitResult = "ok"
    /\ Has(trace, "confirm")
    /\ fs = {}

MissingCredential ==
    \/ script = "summary" /\ ~Truthy(env.OPENROUTER_API_KEY)
    \/ script = "automation" /\ (~Truthy(env.RXRESUME_EMAIL)
                                 \/ ~Truthy(env.RXRESUME_PASSWORD))

\* C6: with a required credential missing (OPENROUTER_API_KEY for the summary
\* generator, RXRESUME_EMAIL or RXRESUME_PASSWORD for the automation script)
\* no profile is read, no request is sent and no browser is launched, and the
\* run ends with the missing-credential error.
MissingCredentialFailsFirst ==
    MissingCredential =>
        /\ \A step \in {"launch", "login", "read_profile", "http_post"} :
              ~Has(trace, step)
        /\ browser = "none"
        /\ Terminal => (pc = "raised" /\ error.type = "missing_credential")

\* C7: a variable that is unset or blank reads as its default, and an integer
\* variable whose value does not parse as an integer reads as its default.
EnvDefaultsApplied ==
    (script = "env" /\ pc # "unread") =>
        /\ (raw = None \/ Strip(raw) = <<>>) => out = DefaultOut(pc)
        /\ (EnvVars[pc].kind = "int" /\ raw # None /\ ~PyInt(raw).ok)
              => out = DefaultOut(pc)

\* C8: within one run the upload and the validate click each happen at most
\* once, and once import_resume has failed the run neither navigates nor
\* exports, writes no PDF, returns no path, and ends by raising that error.
NoRetryAfterImportFailure ==
    script = "automation" =>
        /\ Count(trace, "upload") <= 1
        /\ Count(trace, "validate") <= 1
        /\ Count(trace, "open_import") <= 1
        /\ error.type \in ImportErrors =>
              /\ ~Has(trace, "navigate")
              /\ ~Has(trace, "export")
              /\ output_path \notin fs
              /\ ~returned
              /\ pc \in {"finally", "exit_with", "raised"}
        /\ waitResult = "failed" => pc \notin {"wait", "validate", "upload"}

ImportFailurePropagated ==
    /\ script = "automation"
    /\ pc = "raised"
    /\ waitResult = "failed"
    /\ error.type = "import_timeout"
    /\ Count(trace, "validate") = 1

SelectorQueries ==
    SelectSeq(trace, LAMBDA x : \E i \in 1..Len(error_selectors) :
                                    x = error_selectors[i])

\* C9: on the failure path the error selectors are queried in list order; a
\* validation error carries the stripped text of the first queried element
\* whose stripped text is non-empty, the scan stopping there; when no element
\* has text the dialog is queried, its content logged exactly when it exists,
\* and the timeout error is raised; a run whose wait failed never returns.
ScanRaisesFirstErrorText ==
    script = "automation" =>
        /\ Len(SelectorQueries) = (IF Len(seen) > Len(error_selectors)
                                   THEN Len(error_selectors) ELSE Len(seen))
        /\ SelectorQueries = SubSeq(error_selectors, 1, Len(SelectorQueries))
        /\ error.type = "validation_failed" =>
              /\ Len(seen) \in 1..Len(error_selectors)
              /\ HasText(seen[Len(seen)])
              /\ error.text = Strip(seen[Len(seen)])
              /\ error.text # <<>>
              /\ \A j \in 1..(Len(seen) - 1) : ~HasText(seen[j])
        /\ error.type = "import_timeout" =>
              /\ Len(seen) = Len(error_selectors) + 1
              /\ \A j \in 1..Len(error_selectors) : ~HasText(seen[j])
              /\ Has(log, "dialog_content") <=> seen[Len(seen)] # None
              /\ trace[Len(trace)] = dialog_selector \/ pc # "finally"
        /\ (waitResult = "failed" /\ pc \in AfterImport) =>
              /\ error.type \in {"validation_failed", "import_timeout"}
              /\ pc \in {"finally", "exit_with", "raised"}
              /\ ~returned

SkippedBlankThenFound ==
    /\ script = "automation"
    /\ pc = "raised"
    /\ error.type = "validation_failed"
    /\ Len(seen) = 3
    /\ seen[1] = <<" ">>
    /\ seen[2] = None
    /\ error.text = <<SelectorMark[3]>>

CommaBounds(s) == {0, Len(s) + 1} \cup {i \in 1..Len(s) : s[i] = ","}

NextBound(s, a) ==
    CHOOSE b \in CommaBounds(s) : b > a /\ \A c \in CommaBounds(s) : c > a => b <= c

Solid(s, a) ==
    {i \in (a + 1)..(NextBound(s, a) - 1) : s[i] \notin Whitespace}

KeptPieces(s) == {a \in CommaBounds(s) \ {Len(s) + 1} : Solid(s, a) # {}}

Least(S) == CHOOSE x \in S : \A y \in S : x <= y

Greatest(S) == CHOOSE x \in S : \A y \in S : y <= x

SitesInput == IF pc = "parsed" THEN raw ELSE _env_str(raw, EnvVars.JOBSPY_SITES.s)

\* C10: _parse_sites returns, in input order, the comma-separated pieces that
\* contain a non-blank character, each cut down to the span from its first to
\* its last non-blank character; nothing else is returned, so no entry is
\* empty, starts or ends with a blank, and equal pieces all appear.
ParseSitesTrimsAndDropsEmpty ==
    (script = "sites" /\ pc # "input") =>
        LET s == SitesInput IN
        /\ Len(sites) = Cardinality(KeptPieces(s))
        /\ \A a \in KeptPieces(s) :
              sites[Cardinality({b \in KeptPieces(s) : b <= a})]
                 = SubSeq(s, Least(Solid(s, a)), Greatest(Solid(s, a)))
        /\ \A i \in 1..Len(sites) :
              /\ sites[i] # <<>>
              /\ sites[i][1] \notin Whitespace
              /\ sites[i][Len(sites[i])] \notin Whitespace
              /\ \A k \in 1..Len(sites[i]) : sites[i][k] # ","

ParsedWithBlankPiece ==
    /\ script = "sites"
    /\ pc = "parsed"
    /\ raw = <<"a", ",", " ", ",", "a">>
    /\ sites = << <<"a">>, <<"a">> >>

====
